---- MODULE Spec2Model ----
(***************************************************************************)
(* Model of nftnl/src/chain.rs: the Chain wrapper around a native          *)
(* nftnl_chain handle, its construgiven, mutators, accessors, netlink       *)
(* message encoder (NlMsg::write) and destrugiven.                          *)
(*                                                                         *)
(* The native object is a record of attribute values plus the set of       *)
(* attributes that have been set.  C strings are sequences of bytes; a     *)
(* pointer to a C string is the byte sequence with its terminating NUL.    *)
(* 32-bit attribute values are written to the wire in network byte order.  *)
(***************************************************************************)
EXTENDS Integers, Sequences, FiniteSets, TLC

(* ------------------------------ bounds -------------------------------- *)

\* Longest chain name (in bytes) the caller passes to Chain::new.
MaxNameLen == 1
\* How often the destrugiven body may be entered for one Chain in SpecRedrop.
MaxDropCalls == 2

\* The Chain bindings the caller may create, and the Tables it created
\* before them.
ChainIds == {1, 2}
TableIds == {1, 2}

(* ------------------------- wire constants ----------------------------- *)

NF_INET_PRE_ROUTING == 0
NF_INET_LOCAL_IN == 1
NF_INET_FORWARD == 2
NF_INET_LOCAL_OUT == 3
NF_INET_POST_ROUTING == 4

NF_DROP == 0
NF_ACCEPT == 1

NFT_MSG_NEWCHAIN == 3
NFT_MSG_DELCHAIN == 5

NLM_F_REQUEST == 1
NLM_F_ACK == 4
NFNL_SUBSYS_NFTABLES == 10

NFPROTO_IPV4 == 2
NFPROTO_IPV6 == 10

U8 == 2^8
U15 == 2^15
U16 == 2^16

\* A 32-bit word is the pair of its 16-bit halves, high half first.
Word(hi, lo) == <<hi % U16, lo % U16>>
\* Widening casts `as u32` of a u16 and of a small constant.
AsU32(v) == Word(v \div U16, v)

\* enum Hook, enum Policy, enum MsgType
Hooks == {"PreRouting", "In", "Forward", "Out", "PostRouting"}
Policies == {"Accept", "Drop"}
MsgTypes == {"Add", "Del"}

\* Hook is repr(u16); its discriminants are the NF_INET_* constants.
HookDiscr(h) ==
    CASE h = "PreRouting" -> NF_INET_PRE_ROUTING % U16
      [] h = "In" -> NF_INET_LOCAL_IN % U16
      [] h = "Forward" -> NF_INET_FORWARD % U16
      [] h = "Out" -> NF_INET_LOCAL_OUT % U16
      [] h = "PostRouting" -> NF_INET_POST_ROUTING % U16

\* Policy is repr(u32); its discriminants are NF_ACCEPT and NF_DROP.
PolicyDiscr(p) ==
    CASE p = "Accept" -> AsU32(NF_ACCEPT)
      [] p = "Drop" -> AsU32(NF_DROP)

(* --------------------------- input domains ---------------------------- *)

\* The set_hook calls made: every hook, and for the priority (a u32) the
\* two extremes and the first value with the sign bit.
HookCalls ==
    {<<"PreRouting", Word(0, 0)>>, <<"In", Word(U15, 0)>>,
     <<"Forward", Word(U16 - 1, U16 - 1)>>, <<"Out", Word(0, 0)>>,
     <<"PostRouting", Word(U16 - 1, U16 - 1)>>}

\* The write calls made: (sequence number, operation).
WriteCalls ==
    {<<Word(0, 42), "Add">>, <<Word(0, 42), "Del">>, <<Word(U16 - 1, U16 - 1), "Del">>}

\* Bytes of a chain name ('c'); a CStr holds no interior NUL.
NameBytes == {99}

RECURSIVE SeqsUpTo(_, _)
SeqsUpTo(S, n) ==
    IF n = 0 THEN {<<>>}
    ELSE LET shorter == SeqsUpTo(S, n - 1)
         IN shorter \cup {Append(s, b) : s \in {x \in shorter : Len(x) = n - 1}, b \in S}

ChainNames == SeqsUpTo(NameBytes, MaxNameLen)

(* ----------------------------- C strings ------------------------------ *)

\* CStr::as_ptr: the bytes followed by the terminating NUL.
as_ptr(s) == Append(s, 0)

\* Number of bytes before the first NUL at a pointer (strlen).
RECURSIVE strlen(_)
strlen(p) == IF p = <<>> \/ Head(p) = 0 THEN 0 ELSE 1 + strlen(Tail(p))

\* CStr::from_ptr: the bytes at the pointer up to, not including, the NUL.
from_ptr(p) == SubSeq(p, 1, strlen(p))


\* strdup: a private copy of the C string at the pointer, NUL included.
strdup(p) == SubSeq(p, 1, strlen(p)) \o <<0>>

(* ------------------------- 32-bit arithmetic -------------------------- *)

\* Reinterpretation of a uint32_t as int32_t (the high half carries the
\* sign) and back.
ToI32(v) == <<IF v[1] >= U15 THEN v[1] - U16 ELSE v[1], v[2]>>
ToU32(i) == Word(i[1], i[2])

\* htonl: the four bytes of a 32-bit value, most significant first.
htonl(v) ==
    LET u == ToU32(v)
    IN <<u[1] \div U8, u[1] % U8, u[2] \div U8, u[2] % U8>>

RECURSIVE BitOr(_, _)
BitOr(a, b) ==
    IF a = 0 THEN b
    ELSE IF b = 0 THEN a
    ELSE (IF a % 2 = 1 \/ b % 2 = 1 THEN 1 ELSE 0) + 2 * BitOr(a \div 2, b \div 2)

(* --------------------------- native chain ----------------------------- *)

\* nftnl_chain_alloc: a zeroed object with no attribute set.
nftnl_chain_alloc ==
    [alloc |-> TRUE, flags |-> {}, name |-> <<>>, table |-> <<>>,
     hooknum |-> Word(0, 0), prio |-> ToI32(Word(0, 0)), policy |-> Word(0, 0)]

\* nftnl_chain_free: the memory goes back to the allocator.
nftnl_chain_free(n) == [nftnl_chain_alloc EXCEPT !.alloc = FALSE]

nftnl_chain_set_str(n, attr, p) ==
    CASE attr = "NFTNL_CHAIN_NAME" ->
            [n EXCEPT !.name = strdup(p), !.flags = @ \cup {attr}]
      [] attr = "NFTNL_CHAIN_TABLE" ->
            [n EXCEPT !.table = strdup(p), !.flags = @ \cup {attr}]
      [] OTHER -> n

nftnl_chain_set_u32(n, attr, v) ==
    CASE attr = "NFTNL_CHAIN_HOOKNUM" ->
            [n EXCEPT !.hooknum = v, !.flags = @ \cup {attr}]
      [] attr = "NFTNL_CHAIN_PRIO" ->
            [n EXCEPT !.prio = ToI32(v), !.flags = @ \cup {attr}]
      [] attr = "NFTNL_CHAIN_POLICY" ->
            [n EXCEPT !.policy = v, !.flags = @ \cup {attr}]
      [] OTHER -> n

\* nftnl_chain_get_str: the stored pointer, or NULL (the empty sequence here)
\* when the attribute was never set.
nftnl_chain_get_str(n, attr) ==
    CASE attr = "NFTNL_CHAIN_NAME" /\ attr \in n.flags -> n.name
      [] attr = "NFTNL_CHAIN_TABLE" /\ attr \in n.flags -> n.table
      [] OTHER -> <<>>

Attr(tag, val) == [tag |-> tag, val |-> val]

\* nftnl_chain_nlmsg_build_payload: one attribute per set field, the hook
\* number and priority nested together under NFTA_CHAIN_HOOK.
nftnl_chain_nlmsg_build_payload(n) ==
    (IF "NFTNL_CHAIN_TABLE" \in n.flags
        THEN <<Attr("NFTA_CHAIN_TABLE", n.table)>> ELSE <<>>)
    \o (IF "NFTNL_CHAIN_NAME" \in n.flags
        THEN <<Attr("NFTA_CHAIN_NAME", n.name)>> ELSE <<>>)
    \o (IF {"NFTNL_CHAIN_HOOKNUM", "NFTNL_CHAIN_PRIO"} \subseteq n.flags
        THEN <<Attr("NFTA_CHAIN_HOOK",
                    <<Attr("NFTA_HOOK_HOOKNUM", htonl(n.hooknum)),
                      Attr("NFTA_HOOK_PRIORITY", htonl(n.prio))>>)>>
        ELSE <<>>)
    \o (IF "NFTNL_CHAIN_POLICY" \in n.flags
        THEN <<Attr("NFTA_CHAIN_POLICY", htonl(n.policy))>> ELSE <<>>)

\* nftnl_nlmsg_build_hdr: the netlink header followed by the nfgenmsg header.
nftnl_nlmsg_build_hdr(cmd, family, type, seq) ==
    [nlmsg_type |-> BitOr(NFNL_SUBSYS_NFTABLES * U8, cmd) % U16,
     nlmsg_flags |-> BitOr(NLM_F_REQUEST, type) % U16,
     nlmsg_seq |-> seq,
     nfgen_family |-> family % U8]

(* ------------------------------- state -------------------------------- *)

VARIABLES
    tables,     \* Table objects: family, name, and whether still alive
    chains,     \* Chain bindings: life state, native handle, borrowed Table
    native,     \* native nftnl_chain objects, by handle
    frees,      \* per handle, how often nftnl_chain_free was called on it
    dropCalls,  \* per Chain, how often Drop::drop was entered
    given,      \* per Chain, the arguments of Chain::new and of the most
                \* recent set_hook and set_policy calls
    last        \* the most recent call: operation, object, result

vars == <<tables, chains, native, frees, dropCalls, given, last>>

NULL == 0

\* The Tables the caller created: an IPv4 table "t" and an IPv6 table "u".
TableInit ==
    [t \in TableIds |->
        IF t = 1 THEN [live |-> TRUE, family |-> NFPROTO_IPV4, name |-> <<116>>]
        ELSE [live |-> TRUE, family |-> NFPROTO_IPV6, name |-> <<117>>]]

\* Table::get_name, Table::get_family
get_name_of_table(t) == tables[t].name
get_family(t) == tables[t].family

Unallocated == [nftnl_chain_alloc EXCEPT !.alloc = FALSE]
NoChain == [state |-> "none", chain |-> NULL, table |-> 0]
NoArgs == [set |-> FALSE, name |-> <<>>, table |-> 0, hook |-> <<>>, policy |-> <<>>]

Call(op, obj, arg, ret, reads, sets) ==
    [op |-> op, obj |-> obj, arg |-> arg, ret |-> ret, reads |-> reads, sets |-> sets,
     again |-> FALSE]

Init ==
    /\ tables = TableInit
    /\ chains = [c \in ChainIds |-> NoChain]
    /\ native = [h \in ChainIds |-> Unallocated]
    /\ frees = [h \in ChainIds |-> 0]
    /\ dropCalls = [c \in ChainIds |-> 0]
    /\ given = [c \in ChainIds |-> NoArgs]
    /\ last = Call("init", 0, <<>>, "unit", {}, 0)

\* A Chain holding a raw pointer to its Table: nothing is borrowed.
BorrowedNever(t) == FALSE

\* struct Chain<'a> { chain, table: &'a Table }: Table t is borrowed for as
\* long as a Chain holding a reference to it is alive.
Borrowed(t) == \E c \in ChainIds : chains[c].state = "live" /\ chains[c].table = t


(* ---------------------------- Chain::new ------------------------------ *)

\* The construgiven without the null check: the Chain is built around
\* whatever nftnl_chain_alloc returned.
new_unchecked(c, name, t, chain) ==
    /\ chains[c].state = "none"
    /\ tables[t].live
    /\ chains' = [chains EXCEPT ![c] = [state |-> "live", chain |-> chain, table |-> t]]
    /\ native' = IF chain = NULL THEN native
                 ELSE [native EXCEPT ![chain] =
                        nftnl_chain_set_str(
                            nftnl_chain_set_str(nftnl_chain_alloc, "NFTNL_CHAIN_TABLE",
                                                as_ptr(get_name_of_table(t))),
                            "NFTNL_CHAIN_NAME", as_ptr(name))]
    /\ given' = [given EXCEPT ![c] = [NoArgs EXCEPT !.set = TRUE, !.name = name,
                                                     !.table = t]]
    /\ last' = Call("new", c, <<chain>>, "Ok", {"name"}, 2)
    /\ UNCHANGED <<tables, frees, dropCalls>>

\* The construgiven with the two attribute tags exchanged.
new_swapped(c, name, t, chain) ==
    /\ chains[c].state = "none"
    /\ tables[t].live
    /\ IF chain = NULL
       THEN /\ last' = Call("new", c, <<chain>>, "AllocationError", {}, 0)
            /\ UNCHANGED <<tables, chains, native, frees, dropCalls, given>>
       ELSE /\ native' = [native EXCEPT ![chain] =
                            nftnl_chain_set_str(
                                nftnl_chain_set_str(nftnl_chain_alloc, "NFTNL_CHAIN_NAME",
                                                    as_ptr(get_name_of_table(t))),
                                "NFTNL_CHAIN_TABLE", as_ptr(name))]
            /\ chains' = [chains EXCEPT
                            ![c] = [state |-> "live", chain |-> chain, table |-> t]]
            /\ given' = [given EXCEPT ![c] = [NoArgs EXCEPT !.set = TRUE, !.name = name,
                                                             !.table = t]]
            /\ last' = Call("new", c, <<chain>>, "Ok", {"name"}, 2)
            /\ UNCHANGED <<tables, frees, dropCalls>>

\* Chain::new(name, table), with `chain` the pointer nftnl_chain_alloc
\* returns: NULL, or the handle of a fresh object.
new(c, name, t, chain) ==
    /\ chains[c].state = "none"
    /\ tables[t].live
    /\ IF chain = NULL
       THEN \* ensure!(!chain.is_null(), ErrorKind::AllocationError)
            /\ last' = Call("new", c, <<chain>>, "AllocationError", {}, 0)
            /\ UNCHANGED <<tables, chains, native, frees, dropCalls, given>>
       ELSE /\ native' = [native EXCEPT ![chain] =
                            nftnl_chain_set_str(
                                nftnl_chain_set_str(nftnl_chain_alloc, "NFTNL_CHAIN_TABLE",
                                                    as_ptr(get_name_of_table(t))),
                                "NFTNL_CHAIN_NAME", as_ptr(name))]
            /\ chains' = [chains EXCEPT
                            ![c] = [state |-> "live", chain |-> chain, table |-> t]]
            /\ given' = [given EXCEPT ![c] = [NoArgs EXCEPT !.set = TRUE, !.name = name,
                                                             !.table = t]]
            /\ last' = Call("new", c, <<chain>>, "Ok", {"name"}, 2)
            /\ UNCHANGED <<tables, frees, dropCalls>>

(* ------------------------ set_hook, set_policy ------------------------ *)

\* set_hook with the two values stored under each other's attribute.
set_hook_swapped(c, hook, priority) ==
    /\ chains[c].state = "live"
    /\ native' = [native EXCEPT ![chains[c].chain] =
                    nftnl_chain_set_u32(
                        nftnl_chain_set_u32(@, "NFTNL_CHAIN_HOOKNUM", priority),
                        "NFTNL_CHAIN_PRIO", AsU32(HookDiscr(hook)))]
    /\ given' = [given EXCEPT ![c].hook = <<hook, priority>>]
    /\ last' = Call("set_hook", c, <<hook, priority>>, "unit", {}, 2)
    /\ UNCHANGED <<tables, chains, frees, dropCalls>>

set_hook(c, hook, priority) ==
    /\ chains[c].state = "live"
    /\ native' = [native EXCEPT ![chains[c].chain] =
                    nftnl_chain_set_u32(
                        nftnl_chain_set_u32(@, "NFTNL_CHAIN_HOOKNUM", AsU32(HookDiscr(hook))),
                        "NFTNL_CHAIN_PRIO", priority)]
    /\ given' = [given EXCEPT ![c].hook = <<hook, priority>>]
    /\ last' = Call("set_hook", c, <<hook, priority>>, "unit", {}, 2)
    /\ UNCHANGED <<tables, chains, frees, dropCalls>>

\* set_policy writing the priority attribute instead of the policy one.
set_policy_as_prio(c, policy) ==
    /\ chains[c].state = "live"
    /\ native' = [native EXCEPT ![chains[c].chain] =
                    nftnl_chain_set_u32(@, "NFTNL_CHAIN_PRIO", PolicyDiscr(policy))]
    /\ given' = [given EXCEPT ![c].policy = <<policy>>]
    /\ last' = Call("set_policy", c, <<policy>>, "unit", {}, 1)
    /\ UNCHANGED <<tables, chains, frees, dropCalls>>

set_policy(c, policy) ==
    /\ chains[c].state = "live"
    /\ native' = [native EXCEPT ![chains[c].chain] =
                    nftnl_chain_set_u32(@, "NFTNL_CHAIN_POLICY", PolicyDiscr(policy))]
    /\ given' = [given EXCEPT ![c].policy = <<policy>>]
    /\ last' = Call("set_policy", c, <<policy>>, "unit", {}, 1)
    /\ UNCHANGED <<tables, chains, frees, dropCalls>>

(* ------------------------ get_name, get_table ------------------------- *)

get_name(c) ==
    /\ chains[c].state = "live"
    /\ last' = Call("get_name", c, <<>>,
                    from_ptr(nftnl_chain_get_str(native[chains[c].chain],
                                                 "NFTNL_CHAIN_NAME")),
                    {}, 0)
    /\ UNCHANGED <<tables, chains, native, frees, dropCalls, given>>

get_table(c) ==
    /\ chains[c].state = "live"
    /\ last' = Call("get_table", c, <<>>, chains[c].table, {}, 0)
    /\ UNCHANGED <<tables, chains, native, frees, dropCalls, given>>

(* --------------------------- NlMsg::write ----------------------------- *)

RawMsgType(msg_type) ==
    CASE msg_type = "Add" -> NFT_MSG_NEWCHAIN
      [] msg_type = "Del" -> NFT_MSG_DELCHAIN

Message(hdr, payload) == [hdr |-> hdr, payload |-> payload]

\* write without the acknowledgment flag.
write_noack(c, seq, msg_type) ==
    /\ chains[c].state = "live"
    /\ last' = [Call("write", c, <<seq, msg_type>>,
                     Message(nftnl_nlmsg_build_hdr(RawMsgType(msg_type) % U16,
                                                   get_family(chains[c].table) % U16,
                                                   0, seq),
                             nftnl_chain_nlmsg_build_payload(native[chains[c].chain])),
                     {"family"}, 0)
                EXCEPT !.again = (last.op = "write" /\ last.obj = c
                                  /\ last.arg = <<seq, msg_type>>)]
    /\ UNCHANGED <<tables, chains, native, frees, dropCalls, given>>

\* write taking the family from the native chain object, where Chain::new
\* never stored one, instead of asking the Table.
write_ownfamily(c, seq, msg_type) ==
    /\ chains[c].state = "live"
    /\ last' = [Call("write", c, <<seq, msg_type>>,
                     Message(nftnl_nlmsg_build_hdr(RawMsgType(msg_type) % U16,
                                                   0,
                                                   NLM_F_ACK % U16, seq),
                             nftnl_chain_nlmsg_build_payload(native[chains[c].chain])),
                     {}, 0)
                EXCEPT !.again = (last.op = "write" /\ last.obj = c
                                  /\ last.arg = <<seq, msg_type>>)]
    /\ UNCHANGED <<tables, chains, native, frees, dropCalls, given>>

\* write that consumes the policy: it is cleared once it has been encoded.
write_consuming(c, seq, msg_type) ==
    /\ chains[c].state = "live"
    /\ last' = [Call("write", c, <<seq, msg_type>>,
                     Message(nftnl_nlmsg_build_hdr(RawMsgType(msg_type) % U16,
                                                   get_family(chains[c].table) % U16,
                                                   NLM_F_ACK % U16, seq),
                             nftnl_chain_nlmsg_build_payload(native[chains[c].chain])),
                     {"family"}, 0)
                EXCEPT !.again = (last.op = "write" /\ last.obj = c
                                  /\ last.arg = <<seq, msg_type>>)]
    /\ native' = [native EXCEPT ![chains[c].chain].flags = @ \ {"NFTNL_CHAIN_POLICY"}]
    /\ UNCHANGED <<tables, chains, frees, dropCalls, given>>

write(c, seq, msg_type) ==
    /\ chains[c].state = "live"
    /\ last' = [Call("write", c, <<seq, msg_type>>,
                     Message(nftnl_nlmsg_build_hdr(RawMsgType(msg_type) % U16,
                                                   get_family(chains[c].table) % U16,
                                                   NLM_F_ACK % U16, seq),
                             nftnl_chain_nlmsg_build_payload(native[chains[c].chain])),
                     {"family"}, 0)
                EXCEPT !.again = (last.op = "write" /\ last.obj = c
                                  /\ last.arg = <<seq, msg_type>>)]
    /\ UNCHANGED <<tables, chains, native, frees, dropCalls, given>>

(* ---------------------------- Drop::drop ------------------------------ *)

\* A destrugiven that forgets the native handle.
drop_leaking(c) ==
    /\ chains' = [chains EXCEPT ![c].state = "dropped"]
    /\ dropCalls' = [dropCalls EXCEPT ![c] = @ + 1]
    /\ given' = [given EXCEPT ![c] = NoArgs]
    /\ last' = Call("drop", c, <<>>, "unit", {}, 0)
    /\ UNCHANGED <<tables, native, frees>>

\* The destrugiven body: nftnl_chain_free(self.chain), whatever the state of
\* the Chain it is entered on.
drop(c) ==
    /\ chains' = [chains EXCEPT ![c].state = "dropped"]
    /\ dropCalls' = [dropCalls EXCEPT ![c] = @ + 1]
    /\ native' = [native EXCEPT ![chains[c].chain] = nftnl_chain_free(@)]
    /\ frees' = [frees EXCEPT ![chains[c].chain] = @ + 1]
    /\ given' = [given EXCEPT ![c] = NoArgs]
    /\ last' = Call("drop", c, <<>>, "unit", {}, 0)
    /\ UNCHANGED tables

(* ------------------------------ callers ------------------------------- *)

New == \E c \in ChainIds, name \in ChainNames, t \in TableIds :
            \E chain \in {NULL, c} : new(c, name, t, chain)

SetHook == \E c \in ChainIds, call \in HookCalls : set_hook(c, call[1], call[2])

SetPolicy == \E c \in ChainIds, policy \in Policies : set_policy(c, policy)

GetName == \E c \in ChainIds : get_name(c)

GetTable == \E c \in ChainIds : get_table(c)

Write == \E c \in ChainIds, call \in WriteCalls : write(c, call[1], call[2])

\* A Chain value is dropped once, when its owner lets go of it.
Drop == \E c \in ChainIds : chains[c].state = "live" /\ drop(c)

\* The destrugiven entered again on a Chain that was already dropped
\* (ptr::drop_in_place or ManuallyDrop::drop followed by the ordinary drop).
DropAgain ==
    \E c \in ChainIds :
        /\ chains[c].state = "dropped"
        /\ dropCalls[c] < MaxDropCalls
        /\ drop(c)

\* The caller drops a Table; the borrow checker rejects it while a Chain
\* still holds a reference to the Table.
DropTable ==
    \E t \in TableIds :
        /\ tables[t].live
        /\ ~Borrowed(t)
        /\ tables' = [tables EXCEPT ![t].live = FALSE]
        /\ last' = Call("drop_table", t, <<>>, "unit", {}, 0)
        /\ UNCHANGED <<chains, native, frees, dropCalls, given>>

Next ==
    \/ New
    \/ SetHook
    \/ SetPolicy
    \/ GetName
    \/ GetTable
    \/ Write
    \/ Drop
    \/ DropTable

Spec == Init /\ [][Next]_vars

NextRedrop == Next \/ DropAgain

SpecRedrop == Init /\ [][NextRedrop]_vars


(* ======================= properties of the code ======================= *)

\* ntohl: the 32-bit word four wire bytes stand for.
ntohl(b) == Word(b[1] * U8 + b[2], b[3] * U8 + b[4])

\* The values of the attributes carrying `tag` in a sequence of attributes.
Indices(attrs, tag) == {i \in DOMAIN attrs : attrs[i].tag = tag}
Count(attrs, tag) == Cardinality(Indices(attrs, tag))
Value(attrs, tag) == attrs[CHOOSE i \in Indices(attrs, tag) : TRUE].val

\* The hook number and priority fields of a payload, wherever they are nested.
HookFields(payload) ==
    IF Count(payload, "NFTA_CHAIN_HOOK") = 0 THEN <<>>
    ELSE Value(payload, "NFTA_CHAIN_HOOK")

WireOfHook(h) ==
    CASE h = "PreRouting" -> Word(0, NF_INET_PRE_ROUTING)
      [] h = "In" -> Word(0, NF_INET_LOCAL_IN)
      [] h = "Forward" -> Word(0, NF_INET_FORWARD)
      [] h = "Out" -> Word(0, NF_INET_LOCAL_OUT)
      [] h = "PostRouting" -> Word(0, NF_INET_POST_ROUTING)

WireOfPolicy(p) == IF p = "Accept" THEN Word(0, NF_ACCEPT) ELSE Word(0, NF_DROP)

Encoded == last.op = "write"
EncodedChain == last.obj
Payload == last.ret.payload
Header == last.ret.hdr

\* C1: a payload encoded from a Chain on which set_hook was never called
\* holds no hook-number and no priority field; after set_hook(h, p) it holds
\* exactly one hook-number field, the wire constant of the latest h, and
\* exactly one priority field, the latest p, whatever 32-bit value p is.
HookFieldsFollowSetHook ==
    Encoded =>
        LET hook == given[EncodedChain].hook
            fields == HookFields(Payload)
        IN /\ Count(Payload, "NFTA_HOOK_HOOKNUM") = 0
           /\ Count(Payload, "NFTA_HOOK_PRIORITY") = 0
           /\ IF hook = <<>>
              THEN /\ Count(Payload, "NFTA_CHAIN_HOOK") = 0
                   /\ fields = <<>>
              ELSE /\ Count(Payload, "NFTA_CHAIN_HOOK") = 1
                   /\ Len(fields) = 2
                   /\ Count(fields, "NFTA_HOOK_HOOKNUM") = 1
                   /\ Count(fields, "NFTA_HOOK_PRIORITY") = 1
                   /\ ntohl(Value(fields, "NFTA_HOOK_HOOKNUM")) = WireOfHook(hook[1])
                   /\ ntohl(Value(fields, "NFTA_HOOK_PRIORITY")) = hook[2]

\* A chain hooked twice, last with the largest priority, has been encoded.
HookedChainEncoded ==
    /\ Encoded
    /\ given[EncodedChain].hook = <<"PostRouting", Word(U16 - 1, U16 - 1)>>
    /\ Count(Payload, "NFTA_CHAIN_HOOK") = 1

\* C2: a payload holds no policy field when set_policy was never called and
\* exactly one, the wire constant of the latest policy, when it was, whether
\* or not the chain has a hook.
PolicyFieldFollowsSetPolicy ==
    Encoded =>
        LET policy == given[EncodedChain].policy
        IN IF policy = <<>>
           THEN Count(Payload, "NFTA_CHAIN_POLICY") = 0
           ELSE /\ Count(Payload, "NFTA_CHAIN_POLICY") = 1
                /\ ntohl(Value(Payload, "NFTA_CHAIN_POLICY")) = WireOfPolicy(policy[1])

\* A regular chain with the Accept policy has been encoded.
RegularChainWithPolicyEncoded ==
    /\ Encoded
    /\ given[EncodedChain].policy = <<"Accept">>
    /\ given[EncodedChain].hook = <<>>
    /\ Count(Payload, "NFTA_CHAIN_POLICY") = 1

\* C3: the header write builds carries the nftables message type NEWCHAIN
\* for Add and DELCHAIN for Del, the family of the owning Table, the
\* acknowledgment flag, and the sequence number it was given.
HeaderAsRequested ==
    Encoded =>
        /\ Header.nlmsg_type \div U8 = NFNL_SUBSYS_NFTABLES
        /\ Header.nlmsg_type % U8 =
                (IF last.arg[2] = "Add" THEN NFT_MSG_NEWCHAIN ELSE NFT_MSG_DELCHAIN)
        /\ Header.nfgen_family = TableInit[given[EncodedChain].table].family
        /\ (Header.nlmsg_flags \div NLM_F_ACK) % 2 = 1
        /\ Header.nlmsg_seq = last.arg[1]

\* A chain of the IPv6 table has been encoded for deletion with the largest
\* sequence number.
DeleteEncodedWithLargestSeq ==
    /\ Encoded
    /\ last.arg = <<Word(U16 - 1, U16 - 1), "Del">>
    /\ Header.nfgen_family = NFPROTO_IPV6

PostConstructionOps == {"set_hook", "set_policy", "get_name", "write", "drop"}

\* C5 as claimed: a live Chain holds its own copy of the Table's name and of
\* the Table's family, and no operation after construction reads the Table.
ChainHoldsNameAndFamily ==
    /\ \A c \in ChainIds :
            chains[c].state = "live" =>
                {"NFTNL_CHAIN_TABLE", "NFTNL_CHAIN_FAMILY"} \subseteq native[chains[c].chain].flags
    /\ last.op \in PostConstructionOps => last.reads = {}

\* C5 as the code has it: Chain::new copies the Table's name only; write
\* stamps the table name from that copy and asks the Table for the family;
\* set_hook, set_policy, get_name and drop do not read the Table.
ChainHoldsNameOnly ==
    /\ \A c \in ChainIds :
            chains[c].state = "live" =>
                /\ "NFTNL_CHAIN_FAMILY" \notin native[chains[c].chain].flags
                /\ "NFTNL_CHAIN_TABLE" \in native[chains[c].chain].flags
                /\ native[chains[c].chain].table =
                        TableInit[given[c].table].name \o <<0>>
    /\ last.op = "new" /\ last.ret = "Ok" => last.reads = {"name"}
    /\ Encoded =>
            /\ last.reads = {"family"}
            /\ Header.nfgen_family = tables[chains[EncodedChain].table].family
            /\ Count(Payload, "NFTA_CHAIN_TABLE") = 1
            /\ Value(Payload, "NFTA_CHAIN_TABLE") = native[chains[EncodedChain].chain].table
    /\ last.op \in PostConstructionOps \ {"write"} => last.reads = {}

\* A configured chain of the IPv6 table has been encoded.
EncodedWithTableFamily ==
    /\ Encoded
    /\ last.reads = {"family"}
    /\ given[EncodedChain].table = 2
    /\ given[EncodedChain].hook # <<>>

\* C6: when nftnl_chain_alloc returns NULL, Chain::new returns
\* AllocationError, creates no Chain, leaves no native object allocated,
\* sets no native attribute and leaves the Tables as they were.
AllocationFailureLeavesNothing ==
    [][(last'.op = "new" /\ last'.arg = <<NULL>>) =>
            /\ last'.ret = "AllocationError"
            /\ last'.sets = 0
            /\ chains'[last'.obj].state = "none"
            /\ ~native'[last'.obj].alloc
            /\ chains' = chains
            /\ native' = native
            /\ frees' = frees
            /\ tables' = tables]_vars

\* Chain::new has failed for one binding while the other Chain is live.
AllocationFailed ==
    /\ last.op = "new"
    /\ last.ret = "AllocationError"
    /\ \E c \in ChainIds : chains[c].state = "live"

\* C7: write leaves the Chain, its native object and the Tables unchanged,
\* and a write repeated with the same sequence number and operation right
\* after the first produces the same message.
EncodeIsPureAndRepeatable ==
    [][last'.op = "write" =>
            /\ chains' = chains
            /\ native' = native
            /\ tables' = tables
            /\ given' = given
            /\ frees' = frees
            /\ last'.again => last'.ret = last.ret]_vars

\* A base chain with a policy has been encoded twice in a row.
EncodedTwice ==
    /\ Encoded
    /\ last.again
    /\ given[EncodedChain].hook # <<>>
    /\ given[EncodedChain].policy # <<>>

\* C8: the Table a live Chain refers to is alive.
LiveChainHasLiveTable ==
    \A c \in ChainIds : chains[c].state = "live" => tables[chains[c].table].live

\* Two Chains shared a Table, one of them has been dropped, and the other
\* Table is gone.
SharedTableOutlivesFirstChain ==
    \E c, d \in ChainIds, t \in TableIds :
        /\ chains[c].state = "live"
        /\ chains[d].state = "dropped"
        /\ chains[c].table = chains[d].table
        /\ t # chains[c].table
        /\ ~tables[t].live

IsBase(n) == {"NFTNL_CHAIN_HOOKNUM", "NFTNL_CHAIN_PRIO"} \subseteq n.flags
HookPart(n) ==
    <<n.flags \cap {"NFTNL_CHAIN_HOOKNUM", "NFTNL_CHAIN_PRIO"}, n.hooknum, n.prio>>

\* C9: a Chain is created regular, becomes a base chain only by set_hook,
\* stays a base chain for as long as it lives, and set_policy changes
\* neither that nor the stored hook and priority.
BaseChainOnlyBySetHook ==
    [][\A c \in ChainIds :
            /\ (chains[c].state = "none" /\ chains'[c].state = "live")
                    => ~IsBase(native'[chains'[c].chain])
            /\ (chains[c].state = "live" /\ chains'[c].state = "live") =>
                    /\ IsBase(native[chains[c].chain]) => IsBase(native'[chains'[c].chain])
                    /\ (~IsBase(native[chains[c].chain]) /\ IsBase(native'[chains'[c].chain]))
                            => (last'.op = "set_hook" /\ last'.obj = c)
                    /\ last'.op # "set_hook"
                            => HookPart(native'[chains'[c].chain])
                                    = HookPart(native[chains[c].chain])]_vars

\* set_policy has been called on a base chain, which is still a base chain.
PolicySetOnBaseChain ==
    /\ last.op = "set_policy"
    /\ given[last.obj].hook # <<>>
    /\ IsBase(native[chains[last.obj].chain])

\* C10: get_name returns the name given to Chain::new and get_table the
\* Table given to it, with the name and family that Table was created with,
\* after any calls of set_hook, set_policy and write; every payload holds
\* the table name and the chain name.
NameAndTableAsConstructed ==
    /\ \A t \in TableIds :
            tables[t].name = TableInit[t].name /\ tables[t].family = TableInit[t].family
    /\ \A c \in ChainIds :
            chains[c].state = "live" =>
                /\ given[c].set
                /\ chains[c].table = given[c].table
    /\ last.op = "get_name" => last.ret = given[last.obj].name
    /\ last.op = "get_table" => last.ret = given[last.obj].table /\ tables[last.ret].live
    /\ Encoded =>
            /\ Count(Payload, "NFTA_CHAIN_TABLE") = 1
            /\ Count(Payload, "NFTA_CHAIN_NAME") = 1
            /\ Value(Payload, "NFTA_CHAIN_TABLE")
                    = TableInit[given[EncodedChain].table].name \o <<0>>
            /\ Value(Payload, "NFTA_CHAIN_NAME") = given[EncodedChain].name \o <<0>>

\* get_name has been called on a chain named "c" of table "u" after
\* set_hook and set_policy.
NameReadAfterConfiguration ==
    /\ last.op = "get_name"
    /\ last.ret = <<99>>
    /\ given[last.obj].table = 2
    /\ given[last.obj].hook # <<>>
    /\ given[last.obj].policy # <<>>

====
